---- MODULE Spec2Model ----
(***************************************************************************)
(* SageMakerProcessingOperator                                             *)
(* (airflow/providers/amazon/aws/operators/sagemaker_processing.py).       *)
(*                                                                         *)
(* One behaviour is one task: the constructor call followed by one call    *)
(* of execute, interleaved with the remote platform advancing the job.     *)
(* The operator's own code is translated from the source file; the base    *)
(* operator's preprocess_config and the SageMaker / IAM hooks are not in   *)
(* the source tree and are modelled from their documented contracts.       *)
(***************************************************************************)
EXTENDS Integers, Sequences, FiniteSets, TLC

\* ------------------------------------------------------------------ bounds
MaxInterval == 2      \* check_interval ranges over 1..MaxInterval
MaxBudget == 3        \* max_ingestion_time ranges over None, 1..MaxBudget
MaxPolls == MaxBudget + 2   \* cap on the polls of an unbounded wait

\* ---------------------------------------------------------------- values
\* Optional[int]: None is the empty set, the integer n is {n}.
None == {}
Some(n) == {n}

\* A leaf of the config is a templated string holding a number or an int.
StrVal(n) == [t |-> "str", v |-> n]
IntVal(n) == [t |-> "int", v |-> n]
RawVals == {StrVal(2), IntVal(2)}

\* Python int(x) of a numeric string or of an int.
IntCast(x) == IntVal(x.v)

EmptyMap == [k \in {} |-> 0]

JobNames == {"job-1", "job-10"}
ShortRole == "my-role"
FullRole == "arn:aws:iam::1:role/my-role"
GhostRole == "no-such-role"
Roles == {ShortRole, FullRole, GhostRole}

Policies == {"increment", "fail", "replace"}

\* Maps over every subset of the keys K with values in V.
PartialMaps(K, V) == UNION {[S -> V] : S \in SUBSET K}

ClusterConfigs == PartialMaps({"InstanceCount", "VolumeSizeInGB"}, RawVals)
ResourceSections == PartialMaps({"ClusterConfig"}, ClusterConfigs)
StoppingSections == PartialMaps({"MaxRuntimeInSeconds"}, RawVals)

OptionalKeys == {"RoleArn", "ProcessingResources", "StoppingCondition"}

\* The job specifications a user can supply: ProcessingJobName is always
\* there, the three other top-level keys are optional.
MakeConfig(keys, name, role, res, stop) ==
    [k \in keys \cup {"ProcessingJobName"} |->
        CASE k = "ProcessingJobName" -> name
          [] k = "RoleArn" -> role
          [] k = "ProcessingResources" -> res
          [] OTHER -> stop]

Configs ==
    {MakeConfig(keys, name, role, res, stop) :
        keys \in SUBSET OptionalKeys, name \in JobNames, role \in Roles,
        res \in ResourceSections, stop \in StoppingSections}

\* The job specifications the task runs are drawn from: every combination of
\* optional top-level keys, with numeric leaves given as templated strings.
RunResources ==
    {[ClusterConfig |-> [InstanceCount |-> StrVal(2), VolumeSizeInGB |-> IntVal(2)]],
     [ClusterConfig |-> [InstanceCount |-> StrVal(2)]]}
RunStopping == {[MaxRuntimeInSeconds |-> StrVal(2)]}

RunConfigs ==
    {MakeConfig(keys, name, role, res, stop) :
        keys \in SUBSET OptionalKeys, name \in JobNames, role \in Roles,
        res \in RunResources, stop \in RunStopping}

\* ---------------------------------------------------------------- states
NonTerminalStates == {"SUBMITTED", "IN_PROGRESS"}
FailedStates == {"FAILED", "STOPPED"}
TerminalStates == {"SUCCEEDED"} \cup FailedStates
JobStates == NonTerminalStates \cup TerminalStates

StatusCodes == {200, 400, 500}

NoResponse == [ResponseMetadata |-> [HTTPStatusCode |-> 0]]
NoError == [kind |-> "none", msg |-> <<>>, response |-> NoResponse]

VARIABLES
    args,                  \* keyword arguments of the constructor call
    pc,                    \* position of the task
    config,                \* self.config
    action_if_job_exists,  \* self.action_if_job_exists
    wait_for_completion,   \* self.wait_for_completion
    print_log,             \* self.print_log
    check_interval,        \* self.check_interval
    max_ingestion_time,    \* self.max_ingestion_time
    integer_fields,        \* self.integer_fields
    remote,                \* the platform: job name -> "NONE" or a job state
    calls,                 \* steps and remote calls of the run, in order
    job_found,             \* answer of the existence query, "unasked" before it
    submitted,             \* arguments of the create-job call
    response,              \* response of the create-job call
    elapsed,               \* seconds slept by the wait loop
    error,                 \* exception that left the constructor or execute
    result,                \* value returned by execute
    peer                   \* position of a concurrent run for the same job name

vars == <<args, pc, config, action_if_job_exists, wait_for_completion,
          print_log, check_interval, max_ingestion_time, integer_fields,
          remote, calls, job_found, submitted, response, elapsed, error, result,
          peer>>

selfVars == <<config, action_if_job_exists, wait_for_completion, print_log,
              check_interval, max_ingestion_time, integer_fields>>

\* ------------------------------------------------- constructor (operator)
DefaultCheckInterval == 30

\* A signature with the poll interval of a minute.
KeywordDefaultMinute(key) ==
    CASE key = "wait_for_completion" -> TRUE
      [] key = "print_log" -> TRUE
      [] key = "check_interval" -> 60
      [] key = "max_ingestion_time" -> None
      [] OTHER -> "increment"

\* lines 59-63: the defaults of the keyword arguments
KeywordDefault(key) ==
    CASE key = "wait_for_completion" -> TRUE
      [] key = "print_log" -> TRUE
      [] key = "check_interval" -> DefaultCheckInterval
      [] key = "max_ingestion_time" -> None
      [] OTHER -> "increment"

\* The value a keyword argument has in the constructor body.
Arg(given, key) == IF key \in DOMAIN given THEN given[key] ELSE KeywordDefault(key)

\* The validation left out: every value is accepted.
ValidActionAny(a) == TRUE

\* line 68: the accepted values of action_if_job_exists
ValidAction(a) == a \in {"increment", "fail"}

\* lines 69-72: the exception raised for any other value
ConfigurationError(a) ==
    [kind |-> "ConfigurationError",
     msg |-> <<"Argument action_if_job_exists accepts only 'increment' and 'fail'. ",
               "Provided value: '", a, "'.">>,
     response |-> NoResponse]

\* The runtime path added whether or not the section is there.
CreateIntegerFieldsAlways(cfg) ==
    <<<<"ProcessingResources", "ClusterConfig", "InstanceCount">>,
      <<"ProcessingResources", "ClusterConfig", "VolumeSizeInGB">>,
      <<"StoppingCondition", "MaxRuntimeInSeconds">>>>

\* The list with the volume size forgotten.
CreateIntegerFieldsNoVolume(cfg) ==
    <<<<"ProcessingResources", "ClusterConfig", "InstanceCount">>>>
    \o (IF "StoppingCondition" \in DOMAIN cfg
         THEN <<<<"StoppingCondition", "MaxRuntimeInSeconds">>>>
         ELSE <<>>)

\* The list with the instance count forgotten.
CreateIntegerFieldsShort(cfg) ==
    <<<<"ProcessingResources", "ClusterConfig", "VolumeSizeInGB">>>>
    \o (IF "StoppingCondition" \in DOMAIN cfg
         THEN <<<<"StoppingCondition", "MaxRuntimeInSeconds">>>>
         ELSE <<>>)

\* lines 80-87: _create_integer_fields
CreateIntegerFields(cfg) ==
    <<<<"ProcessingResources", "ClusterConfig", "InstanceCount">>,
      <<"ProcessingResources", "ClusterConfig", "VolumeSizeInGB">>>>
    \o (IF "StoppingCondition" \in DOMAIN cfg
         THEN <<<<"StoppingCondition", "MaxRuntimeInSeconds">>>>
         ELSE <<>>)

\* -------------------------------------- normalization (base operator, hooks)
\* SageMakerBaseOperator.parse_integer: cast the value at one path, skip a
\* path that is not there.
RECURSIVE ParseInteger(_, _)
ParseInteger(cfg, field) ==
    IF Head(field) \notin DOMAIN cfg THEN cfg
    ELSE IF Len(field) = 1
         THEN [cfg EXCEPT ![Head(field)] = IntCast(@)]
         ELSE [cfg EXCEPT ![Head(field)] = ParseInteger(@, Tail(field))]

\* SageMakerBaseOperator.parse_config_integers: every path of integer_fields
RECURSIVE ParseConfigIntegers(_, _)
ParseConfigIntegers(cfg, fields) ==
    IF fields = <<>> THEN cfg
    ELSE ParseConfigIntegers(ParseInteger(cfg, Head(fields)), Tail(fields))

\* A resolver that looks up whatever it is given: a full ARN is no role name.
RoleResolvesNamesOnly(role) == role = ShortRole

\* AwsBaseHook.expand_role: a full ARN is returned as it is, a role name is
\* looked up; the lookup of an unknown role fails.
RoleResolves(role) == role # GhostRole
HookExpandRole(role) == IF role = ShortRole THEN FullRole ELSE role

IdentityResolutionError(role) ==
    [kind |-> "IdentityResolutionError", msg |-> <<role>>, response |-> NoResponse]

\* lines 89-92: expand_role
NeedsRole(cfg) == "RoleArn" \in DOMAIN cfg

\* The resolver's answer dropped instead of stored.
ExpandRoleKeep(cfg) == cfg

ExpandRole(cfg) ==
    IF NeedsRole(cfg) THEN [cfg EXCEPT !["RoleArn"] = HookExpandRole(@)] ELSE cfg

\* SageMakerBaseOperator.preprocess_config: integers first, then the role
PreprocessConfig(cfg, fields) == ExpandRole(ParseConfigIntegers(cfg, fields))

\* Every declared path that is present holds an int.
RECURSIVE HoldsInt(_, _)
HoldsInt(cfg, field) ==
    IF Head(field) \notin DOMAIN cfg THEN TRUE
    ELSE IF Len(field) = 1 THEN cfg[Head(field)].t = "int"
         ELSE HoldsInt(cfg[Head(field)], Tail(field))

IntegersNormalized(cfg, fields) ==
    \A i \in 1..Len(fields) : HoldsInt(cfg, fields[i])

\* ------------------------------------------------------ SageMaker hook
\* SageMakerHook.find_processing_job_by_name: exact match on the name
FindProcessingJobByName(rem, name) == rem[name] # "NONE"

\* SageMakerHook.describe_processing_job
DescribeProcessingJob(rem, name) ==
    [ProcessingJobName |-> name, ProcessingJobStatus |-> rem[name]]

\* The platform accepts a create-job call only for a name it does not have.
Accepts(rem, name, code) == code = 200 => rem[name] = "NONE"

MakeResponse(code) == [ResponseMetadata |-> [HTTPStatusCode |-> code]]

\* Does create_processing_job block after the call was acknowledged?
HookWaits(wait, resp) == wait /\ resp.ResponseMetadata.HTTPStatusCode = 200

\* One round of the wait loop, after sleeping: what the status seen and the
\* time slept so far lead to.
WaitOutcome(status, slept, budget) ==
    IF status \in FailedStates THEN "JobFailedError"
    ELSE IF status = "SUCCEEDED" THEN "finished"
    ELSE IF budget # None /\ (\A b \in budget : slept > b) THEN "TimeoutError"
    ELSE "again"

\* The hook forwards the job's log lines while it waits only when the caller
\* asks for it in the create-job call.
StreamsLogs(create) ==
    "print_log" \in DOMAIN create /\ create["print_log"]

HookError(kind, name) ==
    [kind |-> kind, msg |-> <<"SageMaker job ", name>>, response |-> NoResponse]

\* ------------------------------------------------------- execute (operator)
\* The guard with its test negated: it lets an existing job through.
GuardRaisesInverted(found, action) == ~found

\* line 99: the condition under which the job-name guard raises
GuardRaises(found, action) == found

\* lines 100-102
DuplicateJobError(name) ==
    [kind |-> "DuplicateJobError",
     msg |-> <<"A SageMaker processing job with name ", name, " already exists.">>,
     response |-> NoResponse]

\* The flag handed over negated.
CreateArgsWaitInverted(cfg, wait, interval, budget) ==
    [op |-> "create", config |-> cfg, wait_for_completion |-> ~wait,
     check_interval |-> interval, max_ingestion_time |-> budget]

\* The job renamed for the create-job call, the way 'increment' would.
CreateArgsRenamed(cfg, wait, interval, budget) ==
    [op |-> "create", config |-> [cfg EXCEPT !["ProcessingJobName"] = "job-10"],
     wait_for_completion |-> wait,
     check_interval |-> interval, max_ingestion_time |-> budget]

\* The create-job call made without one of the waiting parameters, which
\* the hook then takes at its default.
CreateArgsNoWait(cfg, wait, interval, budget) ==
    [op |-> "create", config |-> cfg, wait_for_completion |-> FALSE,
     check_interval |-> interval, max_ingestion_time |-> budget]

CreateArgsAlwaysWait(cfg, wait, interval, budget) ==
    [op |-> "create", config |-> cfg, wait_for_completion |-> TRUE,
     check_interval |-> interval, max_ingestion_time |-> budget]

CreateArgsNoBudget(cfg, wait, interval, budget) ==
    [op |-> "create", config |-> cfg, wait_for_completion |-> wait,
     check_interval |-> interval, max_ingestion_time |-> None]

\* lines 105-110: the arguments execute hands to create_processing_job
CreateArgs(cfg, wait, interval, budget) ==
    [op |-> "create", config |-> cfg, wait_for_completion |-> wait,
     check_interval |-> interval, max_ingestion_time |-> budget]

NoCreate == [op |-> "none"]

\* Only a server-side status counts as a failed creation.
CreationFailedOn5xx(resp) == resp.ResponseMetadata.HTTPStatusCode >= 500

\* line 111
CreationFailed(resp) == resp.ResponseMetadata.HTTPStatusCode # 200

\* line 112
SubmissionError(resp) ==
    [kind |-> "SubmissionError",
     msg |-> <<"Sagemaker Processing Job creation failed: ">>,
     response |-> resp]

\* The result keyed as the training operator keys its own.
ExecutionResultTraining(description) == [k \in {"Training"} |-> description]

\* line 113
ExecutionResult(description) == [k \in {"Processing"} |-> description]

NoResult == EmptyMap

Call(op, name) == [op |-> op, name |-> name]

Count(op) == Cardinality({i \in 1..Len(calls) : calls[i].op = op})

JobName == config["ProcessingJobName"]

\* ------------------------------------------------------------------- Init
\* The constructor has not run yet: the self.* variables hold placeholders
\* until pc leaves "new".
InitialRemotes == [JobNames -> {"NONE", "SUCCEEDED"}]

\* The constructor calls of a run: every keyword argument given.
RunArgs ==
    [config : RunConfigs,
     wait_for_completion : BOOLEAN,
     print_log : BOOLEAN,
     check_interval : 1..MaxInterval,
     max_ingestion_time : {None} \cup {Some(n) : n \in 1..MaxBudget},
     action_if_job_exists : Policies]

InitWith(calls_of_init, remotes) ==
    /\ args \in calls_of_init
    /\ remote \in remotes
    /\ pc = "new"
    /\ config = EmptyMap
    /\ action_if_job_exists = "unset"
    /\ wait_for_completion = FALSE
    /\ print_log = FALSE
    /\ check_interval = 0
    /\ max_ingestion_time = None
    /\ integer_fields = <<>>
    /\ calls = <<>>
    /\ job_found = "unasked"
    /\ submitted = NoCreate
    /\ response = NoResponse
    /\ elapsed = 0
    /\ error = NoError
    /\ result = NoResult
    /\ peer = "idle"

Init == InitWith(RunArgs, InitialRemotes)

\* ---------------------------------------------------------------- actions
\* __init__, lines 54-78
Construct ==
    /\ pc = "new"
    /\ IF ~ValidAction(Arg(args, "action_if_job_exists"))
       THEN /\ error' = ConfigurationError(Arg(args, "action_if_job_exists"))
            /\ pc' = "ctor_error"
            /\ UNCHANGED selfVars
       ELSE /\ config' = args.config
            /\ action_if_job_exists' = Arg(args, "action_if_job_exists")
            /\ wait_for_completion' = Arg(args, "wait_for_completion")
            /\ print_log' = Arg(args, "print_log")
            /\ check_interval' = Arg(args, "check_interval")
            /\ max_ingestion_time' = Arg(args, "max_ingestion_time")
            /\ integer_fields' = CreateIntegerFields(args.config)
            /\ pc' = "ready"
            /\ UNCHANGED error
    /\ UNCHANGED <<peer, args, remote, calls, job_found, submitted, response, elapsed,
                   result>>

\* self.preprocess_config(), run from position from and leaving at to
PreprocessAt(from, to) ==
    /\ pc = from
    /\ LET parsed == ParseConfigIntegers(config, integer_fields)
           expands == NeedsRole(parsed)
           steps == <<Call("parse_config_integers", JobName)>>
                    \o (IF expands THEN <<Call("expand_role", parsed["RoleArn"])>>
                        ELSE <<>>)
       IN /\ calls' = calls \o steps
          /\ IF expands /\ ~RoleResolves(parsed["RoleArn"])
             THEN /\ config' = parsed
                  /\ error' = IdentityResolutionError(parsed["RoleArn"])
                  /\ pc' = "failed"
             ELSE /\ config' = PreprocessConfig(config, integer_fields)
                  /\ pc' = to
                  /\ UNCHANGED error
    /\ UNCHANGED <<peer, args, action_if_job_exists, wait_for_completion, print_log,
                   check_interval, max_ingestion_time, integer_fields,
                   remote, job_found, submitted, response, elapsed, result>>

\* execute, line 95: self.preprocess_config()
Preprocess == PreprocessAt("ready", "preprocessed")

\* preprocess_config applied once more to the config it has normalized
Renormalize == PreprocessAt("preprocessed", "renormalized")

\* execute, lines 97-102: the job-name guard, run from position at
FindJobAt(at) ==
    /\ pc = at
    /\ LET processing_job_name == config["ProcessingJobName"]
           found == FindProcessingJobByName(remote, processing_job_name)
       IN /\ calls' = Append(calls, Call("find", processing_job_name))
          /\ job_found' = IF found THEN "found" ELSE "absent"
          /\ IF GuardRaises(found, action_if_job_exists)
             THEN /\ error' = DuplicateJobError(processing_job_name)
                  /\ pc' = "failed"
             ELSE /\ pc' = "checked"
                  /\ UNCHANGED error
    /\ UNCHANGED <<peer, args, selfVars, remote, submitted, response, elapsed, result>>

\* The guard reporting the duplicate in the log and going on.
FindJobLogsOnly ==
    /\ pc = "preprocessed"
    /\ LET processing_job_name == config["ProcessingJobName"]
           found == FindProcessingJobByName(remote, processing_job_name)
       IN /\ calls' = Append(calls, Call("find", processing_job_name))
          /\ job_found' = IF found THEN "found" ELSE "absent"
          /\ error' = IF GuardRaises(found, action_if_job_exists)
                       THEN DuplicateJobError(processing_job_name) ELSE error
          /\ pc' = "checked"
    /\ UNCHANGED <<peer, args, selfVars, remote, submitted, response, elapsed, result>>

\* The guard placed ahead of self.preprocess_config().
FindJobFirst == FindJobAt("ready")

\* execute, lines 97-102, in their place after line 95
FindJob == FindJobAt("preprocessed")

\* execute, lines 104-110: the create-job call goes out and is answered
CreateJob ==
    /\ pc = "checked"
    /\ \E code \in StatusCodes :
         LET create == CreateArgs(config, wait_for_completion, check_interval,
                                  max_ingestion_time)
             name == create.config["ProcessingJobName"]
         IN /\ Accepts(remote, name, code)
            /\ submitted' = create
            /\ calls' = Append(calls, Call("create", name))
            /\ response' = MakeResponse(code)
            /\ remote' = IF code = 200 THEN [remote EXCEPT ![name] = "SUBMITTED"]
                          ELSE remote
            /\ pc' = IF HookWaits(create.wait_for_completion, MakeResponse(code))
                      THEN "waiting" ELSE "responded"
    /\ elapsed' = 0
    /\ UNCHANGED <<peer, args, selfVars, job_found, error, result>>

\* create_processing_job with wait_for_completion: sleep check_interval
\* seconds, then ask for the status of the job
Poll ==
    /\ pc = "waiting"
    /\ LET name == submitted.config["ProcessingJobName"]
           slept == elapsed + submitted.check_interval
           outcome == WaitOutcome(remote[name], slept, submitted.max_ingestion_time)
       IN /\ outcome = "again" => Count("poll") < MaxPolls
          /\ elapsed' = slept
          /\ calls' = Append(calls, Call("poll", name))
                       \o (IF StreamsLogs(submitted) THEN <<Call("logs", name)>>
                           ELSE <<>>)
          /\ pc' = CASE outcome = "again" -> "waiting"
                     [] outcome = "finished" -> "responded"
                     [] OTHER -> "failed"
          /\ error' = IF outcome \in {"JobFailedError", "TimeoutError"}
                       THEN HookError(outcome, name) ELSE error
    /\ UNCHANGED <<peer, args, selfVars, remote, job_found, submitted, response, result>>

\* execute, lines 111-113: check the response, describe the job, return
Describe ==
    /\ pc = "responded"
    /\ IF CreationFailed(response)
       THEN /\ error' = SubmissionError(response)
            /\ pc' = "failed"
            /\ UNCHANGED <<calls, result>>
       ELSE /\ calls' = Append(calls, Call("describe", config["ProcessingJobName"]))
            /\ result' = ExecutionResult(
                             DescribeProcessingJob(remote, config["ProcessingJobName"]))
            /\ pc' = "done"
            /\ UNCHANGED error
    /\ UNCHANGED <<peer, args, selfVars, remote, job_found, submitted, response, elapsed>>

\* The platform runs a job: SUBMITTED -> IN_PROGRESS -> terminal state
NextStates(s) ==
    IF s = "SUBMITTED" THEN {"IN_PROGRESS"}
    ELSE IF s = "IN_PROGRESS" THEN TerminalStates ELSE {}

JobProgress ==
    /\ \E n \in JobNames : \E s \in NextStates(remote[n]) :
         remote' = [remote EXCEPT ![n] = s]
    /\ UNCHANGED <<peer, args, pc, selfVars, calls, job_found, submitted, response,
                   elapsed, error, result>>

Task == Construct \/ Preprocess \/ FindJob \/ CreateJob \/ Poll \/ Describe

Next == Task \/ JobProgress

Spec == Init /\ [][Next]_vars

\* Normalization on its own, over every job specification: construct,
\* normalize, normalize again.
\* Two runs for one job name: next to the run above, a second task with the
\* same ProcessingJobName goes through lines 97-110 of its own execute.
PeerFind ==
    /\ peer = "idle"
    /\ LET processing_job_name == args.config["ProcessingJobName"]
           found == FindProcessingJobByName(remote, processing_job_name)
       IN peer' = IF GuardRaises(found, Arg(args, "action_if_job_exists"))
                  THEN "refused" ELSE "passed"
    /\ UNCHANGED <<args, pc, selfVars, remote, calls, job_found, submitted,
                   response, elapsed, error, result>>

PeerCreate ==
    /\ peer = "passed"
    /\ \E code \in StatusCodes :
         LET name == args.config["ProcessingJobName"]
         IN /\ Accepts(remote, name, code)
            /\ remote' = IF code = 200 THEN [remote EXCEPT ![name] = "SUBMITTED"]
                          ELSE remote
            /\ peer' = IF code = 200 THEN "submitted" ELSE "rejected"
    /\ UNCHANGED <<args, pc, selfVars, calls, job_found, submitted, response,
                   elapsed, error, result>>

RaceArgs ==
    [config : RunConfigs,
     wait_for_completion : BOOLEAN,
     print_log : {FALSE},
     check_interval : 1..MaxInterval,
     max_ingestion_time : {None} \cup {Some(n) : n \in 1..MaxBudget},
     action_if_job_exists : {"fail"}]

RaceInit == InitWith(RaceArgs, InitialRemotes)

RaceNext == Next \/ PeerFind \/ PeerCreate

RaceSpec == RaceInit /\ [][RaceNext]_vars

\* Constructor calls that leave keyword arguments out.
OptionalArgs == {"wait_for_completion", "print_log", "check_interval",
                 "max_ingestion_time", "action_if_job_exists"}

MakeArgs(keys, cfg, wait, log, interval, budget, action) ==
    [k \in keys \cup {"config"} |->
        CASE k = "config" -> cfg
          [] k = "wait_for_completion" -> wait
          [] k = "print_log" -> log
          [] k = "check_interval" -> interval
          [] k = "max_ingestion_time" -> budget
          [] OTHER -> action]

DefaultsConfigs == {c \in RunConfigs : DOMAIN c = {"ProcessingJobName"}}

DefaultsArgs ==
    {MakeArgs(keys, cfg, wait, log, interval, budget, action) :
        keys \in SUBSET OptionalArgs, cfg \in DefaultsConfigs,
        wait \in BOOLEAN, log \in BOOLEAN, interval \in 1..MaxInterval,
        budget \in {None} \cup {Some(n) : n \in 1..MaxBudget},
        action \in Policies}

DefaultsInit == InitWith(DefaultsArgs, InitialRemotes)

DefaultsSpec == DefaultsInit /\ [][Next]_vars

NormArgs ==
    [config : Configs,
     wait_for_completion : {TRUE},
     print_log : {TRUE},
     check_interval : {1},
     max_ingestion_time : {None},
     action_if_job_exists : Policies]

NormInit == InitWith(NormArgs, {[n \in JobNames |-> "NONE"]})

NormNext == Construct \/ Preprocess \/ Renormalize

NormSpec == NormInit /\ [][NormNext]_vars

\* The worker runs the task's code whenever it can take a step; the platform
\* owes nothing.
LiveSpec == Init /\ [][Next]_vars /\ WF_vars(Task)

TypeOK ==
    /\ pc \in {"new", "ctor_error", "ready", "preprocessed", "renormalized",
                "checked", "waiting", "responded", "done", "failed"}
    /\ remote \in [JobNames -> {"NONE"} \cup JobStates]
    /\ elapsed \in Nat
    /\ peer \in {"idle", "refused", "passed", "submitted", "rejected"}

\* ================================================================ claims
Constructed == pc \notin {"new", "ctor_error"}
NoValue == DOMAIN result = {}
Mentions(e, text) == \E i \in 1..Len(e.msg) : e.msg[i] = text

\* C1: when the policy is 'fail' and the existence query reports a job of the
\* configured name, execute has ended in the duplicate-job error, whose
\* message holds the job name, and the run has made no create-job call and
\* no describe call and returned nothing.
C1_DuplicateUnderFailAborts ==
    (Constructed /\ action_if_job_exists = "fail" /\ job_found = "found") =>
        /\ pc = "failed"
        /\ error.kind = "DuplicateJobError"
        /\ Mentions(error, config["ProcessingJobName"])
        /\ Count("create") = 0
        /\ Count("describe") = 0
        /\ NoValue

C1_Witness ==
    /\ pc = "failed"
    /\ action_if_job_exists = "fail"
    /\ job_found = "found"
    /\ error.kind = "DuplicateJobError"

\* C2: the guard aborts only when the job is found and the policy is 'fail';
\* with the job found under 'increment', or with no job found, no
\* duplicate-job error is raised and execute goes on to the create-job call.
C2_GuardAbortsOnlyUnderFail ==
    (Constructed /\ job_found # "unasked"
       /\ (job_found = "absent" \/ action_if_job_exists = "increment")) =>
        /\ error.kind # "DuplicateJobError"
        /\ pc = "checked" \/ Count("create") = 1

\* C3: a constructor call with an action_if_job_exists outside
\* {'increment', 'fail'} never yields an operator: it ends in the
\* configuration error naming the value, and no step of execute and no
\* remote call happens; a call with 'increment' or 'fail' raises no such
\* error and stores the value as given.
C3_ConstructorValidatesAction ==
    /\ args.action_if_job_exists \notin {"increment", "fail"} =>
          /\ pc \in {"new", "ctor_error"}
          /\ calls = <<>>
          /\ NoValue
    /\ pc = "ctor_error" =>
          /\ args.action_if_job_exists \notin {"increment", "fail"}
          /\ error.kind = "ConfigurationError"
          /\ Mentions(error, args.action_if_job_exists)
    /\ args.action_if_job_exists \in {"increment", "fail"} =>
          /\ error.kind # "ConfigurationError"
          /\ pc # "ctor_error"
          /\ Constructed => action_if_job_exists = args.action_if_job_exists

C3_Witness ==
    /\ pc = "ctor_error"
    /\ error.kind = "ConfigurationError"
    /\ args.action_if_job_exists = "replace"

StatusCode == response.ResponseMetadata.HTTPStatusCode
Budget == CHOOSE b \in max_ingestion_time : TRUE

\* C4: whatever wait_for_completion is, once the create-job call has been
\* answered with a status other than 200, execute can only raise the
\* submission error, which carries the response; it returns no value and
\* makes no describe call.
C4_Non200RaisesSubmissionError ==
    (Constructed /\ StatusCode \notin {0, 200}) =>
        /\ pc \in {"responded", "failed"}
        /\ pc = "failed" => /\ error.kind = "SubmissionError"
                             /\ error.response = response
        /\ pc = "responded" => error.kind = "none"
        /\ Count("describe") = 0
        /\ NoValue

C4_Witness ==
    /\ pc = "failed"
    /\ wait_for_completion
    /\ StatusCode = 400
    /\ error.kind = "SubmissionError"

\* C5: with wait_for_completion true, a job that is FAILED or STOPPED when
\* the wait looks at it ends execute in the job-failed error, with no value
\* returned and no describe call; execute never returns a value for such a
\* job; and the job-failed error and the timeout error tell the two cases
\* apart: the first is raised only on a failed or stopped job, the second
\* only on a job that is still running.
C5_StateInv ==
    /\ error.kind = "JobFailedError" =>
          /\ pc = "failed"
          /\ wait_for_completion
          /\ remote[config["ProcessingJobName"]] \in FailedStates
          /\ Count("describe") = 0
          /\ NoValue
    /\ (pc = "done" /\ wait_for_completion) =>
          remote[config["ProcessingJobName"]] = "SUCCEEDED"

C5_StepInv ==
    /\ (pc = "waiting" /\ pc' # "waiting"
          /\ remote[config["ProcessingJobName"]] \in FailedStates)
         => (pc' = "failed" /\ error'.kind = "JobFailedError")
    /\ (error.kind = "none" /\ error'.kind = "TimeoutError")
         => remote[config["ProcessingJobName"]] \in NonTerminalStates

C5_FailedJobRaisesJobFailed == [](C5_StateInv) /\ [][C5_StepInv]_vars

C5_Witness ==
    /\ pc = "failed"
    /\ error.kind = "JobFailedError"
    /\ remote[config["ProcessingJobName"]] = "STOPPED"
    /\ max_ingestion_time # None

\* C6: with wait_for_completion true and max_ingestion_time set, the wait
\* goes on only while the time slept is within the budget, and a wait that
\* ends on a job still running ends in the timeout error, raised after the
\* budget and no later than one check_interval after it, with no value
\* returned; with max_ingestion_time None no timeout error is ever raised.
C6_StateInv ==
    /\ (pc = "waiting" /\ max_ingestion_time # None) => elapsed <= Budget
    /\ error.kind = "TimeoutError" =>
          /\ pc = "failed"
          /\ wait_for_completion
          /\ max_ingestion_time # None
          /\ elapsed > Budget
          /\ elapsed <= Budget + check_interval
          /\ Count("describe") = 0
          /\ NoValue

C6_StepInv ==
    (pc = "waiting" /\ pc' # "waiting"
       /\ remote[config["ProcessingJobName"]] \in NonTerminalStates)
      => (pc' = "failed" /\ error'.kind = "TimeoutError")

C6_BudgetBoundsTheWait == [](C6_StateInv) /\ [][C6_StepInv]_vars

C6_Witness ==
    /\ pc = "failed"
    /\ error.kind = "TimeoutError"
    /\ check_interval = 2
    /\ Budget = 3
    /\ elapsed = 4

\* C7: with wait_for_completion false the run never polls the job status
\* and never waits; once the create-job call is acknowledged with 200 it
\* can only go on to return, and when it has returned it has made exactly
\* one describe call (the job described may still be running).
C7_NoWaitReturnsAtOnce ==
    (Constructed /\ ~wait_for_completion) =>
        /\ Count("poll") = 0
        /\ pc # "waiting"
        /\ StatusCode = 200 =>
              /\ pc \in {"responded", "done"}
              /\ error.kind = "none"
        /\ pc = "done" =>
              /\ Count("describe") = 1
              /\ DOMAIN result = {"Processing"}

C7_Witness ==
    /\ pc = "done"
    /\ ~wait_for_completion
    /\ Count("poll") = 0
    /\ result["Processing"].ProcessingJobStatus \in NonTerminalStates

\* Positions in calls of the calls of one kind.
Positions(op) == {i \in 1..Len(calls) : calls[i].op = op}
Before(op1, op2) == \A j \in Positions(op2) : \E i \in Positions(op1) : i < j

\* C8: a run that has returned a value has made exactly one create-job call
\* and, after it, exactly one describe call for the job name; the value has
\* the single key 'Processing', mapped to the description that call
\* returned; and no run makes more than one create-job call.
C8_StateInv ==
    /\ Count("create") <= 1
    /\ Count("describe") <= 1
    /\ pc = "done" <=> ~NoValue
    /\ pc = "done" =>
          /\ Count("create") = 1
          /\ Count("describe") = 1
          /\ Before("create", "describe")
          /\ calls[Len(calls)] = [op |-> "describe",
                                   name |-> config["ProcessingJobName"]]
          /\ DOMAIN result = {"Processing"}

C8_StepInv ==
    (pc # "done" /\ pc' = "done") =>
        /\ DOMAIN result' = {"Processing"}
        /\ result'["Processing"] =
              [ProcessingJobName |-> config["ProcessingJobName"],
               ProcessingJobStatus |-> remote[config["ProcessingJobName"]]]

C9_FixedOrder ==
    /\ Before("parse_config_integers", "find")
    /\ Before("find", "create")
    /\ Before("create", "describe")
    /\ \A j \in Positions("find") : \A i \in Positions("expand_role") : i < j
    /\ Count("find") > 0 =>
          /\ job_found # "unasked"
          /\ HoldsInt(config, <<"ProcessingResources", "ClusterConfig", "InstanceCount">>)
          /\ HoldsInt(config, <<"ProcessingResources", "ClusterConfig", "VolumeSizeInGB">>)
          /\ HoldsInt(config, <<"StoppingCondition", "MaxRuntimeInSeconds">>)
          /\ "RoleArn" \in DOMAIN args.config =>
                config["RoleArn"] = FullRole

C9_Witness ==
    /\ pc = "done"
    /\ "RoleArn" \in DOMAIN config
    /\ args.config["RoleArn"] = ShortRole
    /\ "ProcessingResources" \in DOMAIN config
    /\ Len(calls) >= 5

\* C10: a run with wait_for_completion true, no max_ingestion_time and no
\* job of its name on the platform, whose job at some point is SUCCEEDED,
\* eventually returns {'Processing': description} without an error, having
\* submitted a spec whose declared integer fields are ints.
C10_Premise ==
    /\ args.wait_for_completion
    /\ args.max_ingestion_time = None
    /\ remote[args.config["ProcessingJobName"]] = "NONE"

C10_Returned ==
    /\ pc = "done"
    /\ error.kind = "none"
    /\ DOMAIN result = {"Processing"}
    /\ result["Processing"] =
          [ProcessingJobName |-> args.config["ProcessingJobName"],
           ProcessingJobStatus |-> "SUCCEEDED"]
    /\ submitted.op = "create"
    /\ HoldsInt(submitted.config,
                <<"ProcessingResources", "ClusterConfig", "InstanceCount">>)
    /\ HoldsInt(submitted.config,
                <<"ProcessingResources", "ClusterConfig", "VolumeSizeInGB">>)
    /\ "StoppingCondition" \in DOMAIN args.config =>
          HoldsInt(submitted.config, <<"StoppingCondition", "MaxRuntimeInSeconds">>)

C10_WaitEndsInResult ==
    (C10_Premise /\ <>(remote[args.config["ProcessingJobName"]] = "SUCCEEDED"))
      => <>C10_Returned

C10_Witness ==
    /\ C10_Returned
    /\ wait_for_completion
    /\ max_ingestion_time = None
    /\ Count("poll") >= 3
    /\ "ProcessingResources" \in DOMAIN args.config
    /\ args.config["ProcessingResources"]["ClusterConfig"]["InstanceCount"].t = "str"

\* C11: while execute waits with print_log true, the job's log lines are
\* fetched and forwarded at every look at the job, and the wait still ends
\* only on a terminal job state or on the budget.
C11_LogsStreamedWhileWaiting ==
    /\ (Constructed /\ print_log /\ wait_for_completion) =>
          Count("logs") = Count("poll")
    /\ (Constructed /\ pc \in {"responded", "done"} /\ wait_for_completion
          /\ StatusCode = 200) =>
          remote[config["ProcessingJobName"]] \in TerminalStates

\* ------------------------------------------------ claims on normalization
InstanceCountPath == <<"ProcessingResources", "ClusterConfig", "InstanceCount">>
VolumeSizePath == <<"ProcessingResources", "ClusterConfig", "VolumeSizeInGB">>
MaxRuntimePath == <<"StoppingCondition", "MaxRuntimeInSeconds">>
DeclaredPaths == {InstanceCountPath, VolumeSizePath, MaxRuntimePath}

RECURSIVE Present(_, _)
Present(cfg, path) ==
    /\ Head(path) \in DOMAIN cfg
    /\ Len(path) = 1 \/ Present(cfg[Head(path)], Tail(path))

RECURSIVE At(_, _)
At(cfg, path) ==
    IF Len(path) = 1 THEN cfg[Head(path)] ELSE At(cfg[Head(path)], Tail(path))

\* The keys of the section under path, {} when the section is not there.
KeysAt(cfg, path) == IF Present(cfg, path) THEN DOMAIN At(cfg, path) ELSE {}

\* C12: the stored integer-field list holds the two resource-cluster paths,
\* holds the runtime path exactly when the job specification has a top-level
\* 'StoppingCondition' key, and holds nothing else.
C12_IntegerFieldList ==
    Constructed =>
        /\ {integer_fields[i] : i \in 1..Len(integer_fields)} =
              {InstanceCountPath, VolumeSizePath}
              \cup (IF "StoppingCondition" \in DOMAIN args.config
                    THEN {MaxRuntimePath} ELSE {})
        /\ Len(integer_fields) =
              2 + (IF "StoppingCondition" \in DOMAIN args.config THEN 1 ELSE 0)

C12_Witness ==
    /\ Constructed
    /\ "StoppingCondition" \in DOMAIN args.config
    /\ DOMAIN args.config["StoppingCondition"] = {}
    /\ Len(integer_fields) = 3

\* C13: once the integers have been normalized, each declared path that the
\* given job specification has holds the int of the value given, each
\* declared path it lacks is still lacking, and the job name and the keys of
\* every section are as given.
C13_IntegersCast ==
    Count("parse_config_integers") > 0 =>
        /\ \A path \in DeclaredPaths :
              /\ Present(config, path) <=> Present(args.config, path)
              /\ Present(args.config, path) =>
                    At(config, path) = [t |-> "int", v |-> At(args.config, path).v]
        /\ DOMAIN config = DOMAIN args.config
        /\ config["ProcessingJobName"] = args.config["ProcessingJobName"]
        /\ \A section \in {<<"ProcessingResources">>,
                             <<"ProcessingResources", "ClusterConfig">>,
                             <<"StoppingCondition">>} :
              KeysAt(config, section) = KeysAt(args.config, section)

C13_Witness ==
    /\ pc = "preprocessed"
    /\ Present(args.config, VolumeSizePath)
    /\ At(args.config, VolumeSizePath).t = "str"
    /\ At(config, VolumeSizePath).t = "int"
    /\ ~Present(config, InstanceCountPath)
    /\ "StoppingCondition" \notin DOMAIN config

\* C14: normalizing a normalized job specification changes nothing and
\* raises nothing.
C14_StepInv ==
    pc = "preprocessed" =>
        /\ pc' = "renormalized"
        /\ config' = config
        /\ error' = error

C14_NormalizationIdempotent == [][C14_StepInv]_vars

C14_Witness ==
    /\ pc = "renormalized"
    /\ "RoleArn" \in DOMAIN args.config
    /\ args.config["RoleArn"] = ShortRole
    /\ Present(args.config, InstanceCountPath)
    /\ At(args.config, InstanceCountPath).t = "str"
    /\ Count("parse_config_integers") = 2

\* ------------------------------------------------- claims on one run, cont.
\* C15: with wait_for_completion true the wait is left for the rest of
\* execute only on a job seen SUCCEEDED: the describe call is made, and a
\* value returned, only for a job that is SUCCEEDED, and the description
\* returned says so.
C15_StateInv ==
    (Constructed /\ wait_for_completion) =>
        /\ (pc \in {"responded", "done"} /\ StatusCode = 200) =>
              /\ Count("poll") > 0
              /\ remote[config["ProcessingJobName"]] = "SUCCEEDED"
        /\ Count("describe") > 0 =>
              /\ pc = "done"
              /\ result["Processing"].ProcessingJobStatus = "SUCCEEDED"

C15_StepInv ==
    (pc = "waiting" /\ remote[config["ProcessingJobName"]] \in NonTerminalStates)
      => (pc' \in {"waiting", "failed"} /\ result' = result
          /\ Count("describe")' = 0)

C15_OnlyTerminalEndsPolling == [](C15_StateInv) /\ [][C15_StepInv]_vars

C15_Witness ==
    /\ pc = "done"
    /\ wait_for_completion
    /\ Count("poll") = 3
    /\ result["Processing"].ProcessingJobStatus = "SUCCEEDED"

\* C16: an error raised in execute ends the run there: from then on no call
\* is made, nothing is returned and the error stays the one raised; a run
\* that has returned a value has raised nothing.
ErrorKinds == {"IdentityResolutionError", "DuplicateJobError", "SubmissionError",
               "TimeoutError", "JobFailedError"}

C16_StateInv ==
    /\ error.kind \in ErrorKinds => (pc = "failed" /\ NoValue)
    /\ pc = "failed" => error.kind \in ErrorKinds
    /\ pc = "done" => (error.kind = "none" /\ ~NoValue)
    /\ Count("create") <= 1

C16_StepInv ==
    error.kind \in ErrorKinds =>
        /\ calls' = calls
        /\ error' = error
        /\ pc' = pc
        /\ result' = result

C16_ErrorsEndTheRun == [](C16_StateInv) /\ [][C16_StepInv]_vars

C16_Witness ==
    /\ pc = "failed"
    /\ error.kind = "SubmissionError"
    /\ remote[config["ProcessingJobName"]] = "NONE"
    /\ Count("create") = 1
    /\ Count("describe") = 0

\* C17: preprocessing calls the resolver exactly when the job specification
\* has a top-level 'RoleArn' key, with the value found there; the resolver's
\* answer replaces that value, the other keys are as the integer
\* normalization left them; without the key no resolver call is made and
\* no 'RoleArn' key appears.
C17_RoleExpansion ==
    Count("parse_config_integers") > 0 =>
        /\ DOMAIN config = DOMAIN args.config
        /\ "RoleArn" \notin DOMAIN args.config => Count("expand_role") = 0
        /\ "RoleArn" \in DOMAIN args.config =>
              /\ Count("expand_role") = 1
              /\ \A i \in Positions("expand_role") :
                    calls[i].name = args.config["RoleArn"]
              /\ pc # "failed" =>
                    config["RoleArn"] =
                      (IF args.config["RoleArn"] = ShortRole THEN FullRole
                       ELSE args.config["RoleArn"])
        /\ \A k \in DOMAIN config \ {"RoleArn"} :
              config[k] = ParseConfigIntegers(args.config, integer_fields)[k]

C17_Witness ==
    /\ pc = "preprocessed"
    /\ "RoleArn" \in DOMAIN args.config
    /\ args.config["RoleArn"] = ShortRole
    /\ config["RoleArn"] = FullRole
    /\ Count("expand_role") = 1

\* ---------------------------------------------------- claims on two runs
\* C18, as claimed: under 'fail' no run sends a create-job call while a job
\* of its name is on the platform.
C18_CreateStep ==
    \/ Count("create")' > Count("create")
    \/ peer = "passed" /\ peer' # "passed"

C18_NoCreateOnExistingJob ==
    [][C18_CreateStep => remote[args.config["ProcessingJobName"]] = "NONE"]_vars

\* C18, amended: under 'fail' a run sends a create-job call only if its own
\* existence query, when it was answered, found no job of its name; a job
\* that another run creates after that answer goes unnoticed.
C18_StateInv ==
    (Constructed /\ action_if_job_exists = "fail") =>
        /\ Count("create") > 0 => job_found = "absent"
        /\ job_found = "found" => (pc = "failed" /\ Count("create") = 0)

C18_StepInv ==
    /\ (job_found = "unasked" /\ job_found' = "absent")
         => remote[args.config["ProcessingJobName"]] = "NONE"
    /\ (peer = "idle" /\ peer' = "passed")
         => remote[args.config["ProcessingJobName"]] = "NONE"

C18_CreateOnlyAfterOwnCheck == [](C18_StateInv) /\ [][C18_StepInv]_vars

C18_Witness ==
    /\ peer = "submitted"
    /\ job_found = "absent"
    /\ Count("create") = 1
    /\ StatusCode = 400
    /\ error.kind = "SubmissionError"

\* --------------------------------------------- claims on the names and args
NameCalls == {i \in 1..Len(calls) : calls[i].op \in {"find", "create", "describe"}}

\* C19: in one run the existence query, the job specification handed to the
\* create-job call and the describe call all carry one and the same job
\* name, the one the normalized config holds, and from the existence query
\* on the config is not modified.
C19_StateInv ==
    /\ \A i \in NameCalls : calls[i].name = args.config["ProcessingJobName"]
    /\ submitted.op = "create" =>
          /\ submitted.config = config
          /\ \A i \in Positions("find") :
                submitted.config["ProcessingJobName"] = calls[i].name
          /\ \A i \in Positions("create") :
                submitted.config["ProcessingJobName"] = calls[i].name

C19_StepInv == Count("find") > 0 => config' = config

C19_OneJobName == [](C19_StateInv) /\ [][C19_StepInv]_vars

C19_Witness ==
    /\ pc = "done"
    /\ Count("find") = 1
    /\ Count("describe") = 1
    /\ submitted.config["ProcessingJobName"] = "job-1"
    /\ remote["job-10"] = "SUCCEEDED"

\* The value a keyword argument has when given, else the default named.
Given(key, default) == IF key \in DOMAIN args THEN args[key] ELSE default

\* C20: the operator holds wait_for_completion, check_interval and
\* max_ingestion_time as given to the constructor, or True, 30 and None when
\* not given; execute changes neither them nor action_if_job_exists, and the
\* one create-job call receives exactly these three values.
C20_StateInv ==
    /\ Constructed =>
          /\ wait_for_completion = Given("wait_for_completion", TRUE)
          /\ check_interval = Given("check_interval", 30)
          /\ max_ingestion_time = Given("max_ingestion_time", {})
    /\ Count("create") <= 1
    /\ Count("create") = 1 <=> submitted.op = "create"
    /\ submitted.op = "create" =>
          /\ submitted.wait_for_completion = Given("wait_for_completion", TRUE)
          /\ submitted.check_interval = Given("check_interval", 30)
          /\ submitted.max_ingestion_time = Given("max_ingestion_time", {})

C20_StepInv ==
    Constructed =>
        UNCHANGED <<wait_for_completion, check_interval, max_ingestion_time,
                    action_if_job_exists>>

C20_WaitingParametersFixed == [](C20_StateInv) /\ [][C20_StepInv]_vars

C20_Witness ==
    /\ pc = "done"
    /\ DOMAIN args = {"config"}
    /\ submitted.op = "create"
    /\ submitted.wait_for_completion
    /\ submitted.check_interval = 30
    /\ submitted.max_ingestion_time = {}
    /\ elapsed = 60

====
